---- MODULE Spec2Model ----
(***************************************************************************)
(* The browser verification scripts of jules-scratch/verification.        *)
(* Each script is a straight-line sequence of Playwright calls, optionally *)
(* wrapped in try / except / finally.  One run of one script is modelled:  *)
(* the page under test and the browser library are the environment, whose  *)
(* answers (how many elements match, is the target enabled, does the call  *)
(* succeed) are chosen nondeterministically at every call.                 *)
(***************************************************************************)
EXTENDS Naturals, Sequences, FiniteSets

\* Largest number of page elements a selector may match at one call.
MaxMatches == 2
\* Largest number of uncaught page errors the page raises in one run.
MaxErrors == 2

VARIABLES
    script,         \* the script being run
    createEnabled,  \* does the Create / Bananimate button ever become enabled
    block,          \* "body", "except", "finally" or "exit"
    pc,             \* index of the next statement in the current block
    trace,          \* the Playwright calls made so far, with their outcome
    pending,        \* the exception in flight ("none" when there is none)
    failure,        \* the first call that raised
    escaped,        \* an exception left the script uncaught
    sessionOpen,    \* a browser was launched and browser.close() not yet called
    closeCalls,     \* number of browser.close() calls
    listening,      \* a "pageerror" handler is registered on the page
    navStarted,     \* the page has been navigated at least once
    raised,         \* the page errors raised by the page, in order
    printed,        \* the page errors the handler printed, in order
    captures,       \* the paths page.screenshot() wrote, in order
    shareUrl        \* the value read from data-share-url

vars == <<script, createEnabled, block, pc, trace, pending, failure, escaped,
          sessionOpen, closeCalls, listening, navStarted, raised, printed,
          captures, shareUrl>>

\* One statement: its source line, the call, the element it addresses, whether
\* the call goes through a Locator (strict: more than one match raises) or
\* through page.click / page.fill / page.wait_for_selector (first match wins),
\* its argument, and whether its selector carries :not([disabled]).
St(line, op, target, strict, arg) ==
    [line |-> line, op |-> op, target |-> target, strict |-> strict,
     arg |-> arg, enabledOnly |-> FALSE]

StEnabledOnly(line, op, target, strict, arg) ==
    [line |-> line, op |-> op, target |-> target, strict |-> strict,
     arg |-> arg, enabledOnly |-> TRUE]

Url3000 == "http://localhost:3000"
Url3001 == "http://localhost:3001"
\* Screenshot paths are given relative to jules-scratch/verification/.

\* get_page_errors with the handler registered after the navigation.
get_page_errors_LateSubscribe ==
    [body |-> << St(22, "launch", "", FALSE, ""),
                 St(23, "new_page", "", FALSE, ""),
                 St(12, "goto", "", FALSE, Url3000),
                 St(9,  "on_pageerror", "", FALSE, ""),
                 St(15, "sleep", "", FALSE, ""),
                 St(18, "screenshot", "", FALSE, "verification.png"),
                 St(25, "close", "", FALSE, "") >>,
     tryStart |-> 0, except |-> << >>, finally |-> << >>]

get_page_errors ==
    [body |-> << St(22, "launch", "", FALSE, ""),
                 St(23, "new_page", "", FALSE, ""),
                 St(9,  "on_pageerror", "", FALSE, ""),
                 St(12, "goto", "", FALSE, Url3000),
                 St(15, "sleep", "", FALSE, ""),
                 St(18, "screenshot", "", FALSE, "verification.png"),
                 St(25, "close", "", FALSE, "") >>,
     tryStart |-> 0, except |-> << >>, finally |-> << >>]

verify_asset_manager ==
    [body |-> << St(9,  "launch", "", FALSE, ""),
                 St(10, "new_page", "", FALSE, ""),
                 St(13, "goto", "", FALSE, Url3000),
                 St(17, "wait", "input[type=file]", TRUE, ""),
                 St(18, "set_input_files", "input[type=file]", TRUE, "README.md"),
                 St(22, "wait", "ul", TRUE, ""),
                 St(23, "wait", "ul >> text=README.md", TRUE, ""),
                 St(26, "screenshot", "", FALSE, "verification.png") >>,
     tryStart |-> 3,
     except |-> << St(28, "print", "", FALSE, "") >>,
     finally |-> << St(30, "close", "", FALSE, "") >>]

verify_changes ==
    [body |-> << St(35, "launch", "", FALSE, ""),
                 St(36, "new_page", "", FALSE, ""),
                 St(9,  "goto", "", FALSE, Url3000),
                 St(12, "wait", "label=Style Intensity", TRUE, ""),
                 St(13, "wait", "text=Conservative", TRUE, ""),
                 St(14, "wait", "text=Creative", TRUE, ""),
                 St(15, "wait", "label=Quality", TRUE, ""),
                 St(16, "wait", "button=Fast", TRUE, ""),
                 St(17, "wait", "button=Balanced", TRUE, ""),
                 St(18, "wait", "button=High", TRUE, ""),
                 St(22, "wait", "button=+ Add Style Reference", TRUE, ""),
                 St(25, "expect_hidden", "label=Style Reference Image", TRUE, ""),
                 St(27, "click", "button=+ Add Style Reference", TRUE, ""),
                 St(28, "wait", "label=Style Reference Image", TRUE, ""),
                 St(31, "screenshot", "", FALSE, "verification.png"),
                 St(38, "close", "", FALSE, "") >>,
     tryStart |-> 0, except |-> << >>, finally |-> << >>]

\* verify_export_modal with a button selector that lacks :not([disabled]).
verify_export_modal_NoEnabledFilter ==
    [body |-> << St(5,  "launch", "", FALSE, ""),
                 St(6,  "new_page", "", FALSE, ""),
                 St(7,  "goto", "", FALSE, Url3000),
                 St(11, "wait", "prompt", FALSE, ""),
                 St(12, "fill", "prompt", FALSE, "A cat dancing in the rain"),
                 St(16, "wait", "create", FALSE, ""),
                 St(17, "click", "create", FALSE, ""),
                 St(20, "wait", "canvas", FALSE, ""),
                 St(23, "click", "button:has-text(Export)", FALSE, ""),
                 St(26, "wait", "export-modal", FALSE, ""),
                 St(29, "screenshot", "", FALSE, "verification.png"),
                 St(31, "close", "", FALSE, "") >>,
     tryStart |-> 0, except |-> << >>, finally |-> << >>]

verify_export_modal ==
    [body |-> << St(5,  "launch", "", FALSE, ""),
                 St(6,  "new_page", "", FALSE, ""),
                 St(7,  "goto", "", FALSE, Url3000),
                 St(11, "wait", "prompt", FALSE, ""),
                 St(12, "fill", "prompt", FALSE, "A cat dancing in the rain"),
                 StEnabledOnly(16, "wait", "create", FALSE, ""),
                 StEnabledOnly(17, "click", "create", FALSE, ""),
                 St(20, "wait", "canvas", FALSE, ""),
                 St(23, "click", "button:has-text(Export)", FALSE, ""),
                 St(26, "wait", "export-modal", FALSE, ""),
                 St(29, "screenshot", "", FALSE, "verification.png"),
                 St(31, "close", "", FALSE, "") >>,
     tryStart |-> 0, except |-> << >>, finally |-> << >>]

verify_feature ==
    [body |-> << St(5,  "launch", "", FALSE, ""),
                 St(6,  "new_context", "", FALSE, ""),
                 St(7,  "new_page", "", FALSE, ""),
                 St(9,  "goto", "", FALSE, Url3001),
                 St(11, "wait", "prompt", TRUE, ""),
                 St(12, "click", "prompt", TRUE, ""),
                 St(13, "fill", "prompt", TRUE, "A cute cat sleeping"),
                 St(14, "screenshot", "", FALSE, "verification.png") >>,
     tryStart |-> 4,
     except |-> << St(16, "print", "", FALSE, ""),
                   St(17, "screenshot", "", FALSE, "error.png") >>,
     finally |-> << St(19, "close", "", FALSE, "") >>]

verify_share_button_present ==
    [body |-> << St(5,  "launch", "", FALSE, ""),
                 St(6,  "new_context", "", FALSE, ""),
                 St(7,  "new_page", "", FALSE, ""),
                 St(8,  "goto", "", FALSE, Url3000),
                 St(9,  "wait_for_load_state", "", FALSE, "domcontentloaded"),
                 St(10, "sleep", "", FALSE, ""),
                 St(11, "wait", "prompt", FALSE, ""),
                 St(12, "sleep", "", FALSE, ""),
                 St(13, "fill", "prompt", TRUE, "a cat dancing"),
                 St(14, "click", "create", TRUE, ""),
                 St(15, "wait", "canvas", FALSE, ""),
                 St(16, "screenshot", "", FALSE, "share_button_present.png"),
                 St(17, "close", "", FALSE, "") >>,
     tryStart |-> 0, except |-> << >>, finally |-> << >>]

verify_share_feature ==
    [body |-> << St(5,  "launch", "", FALSE, ""),
                 St(6,  "new_context", "", FALSE, ""),
                 St(7,  "new_page", "", FALSE, ""),
                 St(8,  "goto", "", FALSE, Url3000),
                 St(12, "wait", "prompt", TRUE, ""),
                 St(14, "fill", "prompt", TRUE, "a robot dancing"),
                 St(15, "click", "create", TRUE, ""),
                 St(16, "wait", "canvas", FALSE, ""),
                 St(20, "wait", "button=Share", TRUE, ""),
                 St(21, "click", "button=Share", TRUE, ""),
                 St(24, "wait_for_url", "", FALSE, "**/share/**"),
                 St(27, "wait", "heading=Remix This Animation", TRUE, ""),
                 St(28, "wait", "text=a robot dancing", TRUE, ""),
                 St(30, "screenshot", "", FALSE, "share_page.png"),
                 St(31, "close", "", FALSE, "") >>,
     tryStart |-> 0, except |-> << >>, finally |-> << >>]

verify_share_flow ==
    [body |-> << St(5,  "launch", "", FALSE, ""),
                 St(6,  "new_context", "", FALSE, ""),
                 St(7,  "new_page", "", FALSE, ""),
                 St(8,  "goto", "", FALSE, Url3000),
                 St(9,  "wait_for_load_state", "", FALSE, "networkidle"),
                 St(10, "wait", "prompt", FALSE, ""),
                 St(11, "sleep", "", FALSE, ""),
                 St(12, "fill", "prompt", TRUE, "a cat dancing"),
                 St(13, "click", "create", TRUE, ""),
                 St(14, "wait", "canvas", FALSE, ""),
                 St(15, "screenshot", "", FALSE, "animation_player.png"),
                 St(19, "get_attribute", "button:has-text(Share)", TRUE, "data-share-url"),
                 St(22, "goto", "", FALSE, "$share_url"),
                 St(23, "wait", "canvas", FALSE, ""),
                 St(24, "screenshot", "", FALSE, "share_page.png"),
                 St(26, "close", "", FALSE, "") >>,
     tryStart |-> 0, except |-> << >>, finally |-> << >>]

\* verify_typing_animation with the second screenshot written over the first.
verify_typing_animation_SamePath ==
    [body |-> << St(5,  "launch", "", FALSE, ""),
                 St(6,  "new_page", "", FALSE, ""),
                 St(7,  "goto", "", FALSE, Url3000),
                 St(10, "wait_for_load_state", "", FALSE, "networkidle"),
                 St(11, "screenshot", "", FALSE, "01-initial-load.png"),
                 St(14, "wait", "placeholder-text", FALSE, ""),
                 St(15, "screenshot", "", FALSE, "01-initial-load.png"),
                 St(18, "fill", "textbox=Animation prompt", TRUE, "A test prompt"),
                 St(19, "screenshot", "", FALSE, "03-prompt-filled.png"),
                 St(22, "click", "footer", TRUE, ""),
                 St(23, "screenshot", "", FALSE, "04-blurred.png"),
                 St(25, "close", "", FALSE, "") >>,
     tryStart |-> 0, except |-> << >>, finally |-> << >>]

verify_typing_animation ==
    [body |-> << St(5,  "launch", "", FALSE, ""),
                 St(6,  "new_page", "", FALSE, ""),
                 St(7,  "goto", "", FALSE, Url3000),
                 St(10, "wait_for_load_state", "", FALSE, "networkidle"),
                 St(11, "screenshot", "", FALSE, "01-initial-load.png"),
                 St(14, "wait", "placeholder-text", FALSE, ""),
                 St(15, "screenshot", "", FALSE, "02-typing-animation.png"),
                 St(18, "fill", "textbox=Animation prompt", TRUE, "A test prompt"),
                 St(19, "screenshot", "", FALSE, "03-prompt-filled.png"),
                 St(22, "click", "footer", TRUE, ""),
                 St(23, "screenshot", "", FALSE, "04-blurred.png"),
                 St(25, "close", "", FALSE, "") >>,
     tryStart |-> 0, except |-> << >>, finally |-> << >>]

ScriptNames ==
    {"get_page_errors", "verify_asset_manager", "verify_changes",
     "verify_export_modal", "verify_feature", "verify_share_button_present",
     "verify_share_feature", "verify_share_flow", "verify_typing_animation"}

Script(s) ==
    CASE s = "get_page_errors"             -> get_page_errors
      [] s = "verify_asset_manager"        -> verify_asset_manager
      [] s = "verify_changes"              -> verify_changes
      [] s = "verify_export_modal"         -> verify_export_modal
      [] s = "verify_feature"              -> verify_feature
      [] s = "verify_share_button_present" -> verify_share_button_present
      [] s = "verify_share_feature"        -> verify_share_feature
      [] s = "verify_share_flow"           -> verify_share_flow
      [] s = "verify_typing_animation"     -> verify_typing_animation

Block(s, b) ==
    CASE b = "body"    -> Script(s).body
      [] b = "except"  -> Script(s).except
      [] b = "finally" -> Script(s).finally
      [] b = "exit"    -> << >>

\* Where control goes after the statement at index i of block b returned.
AfterSuccess(s, b, i) ==
    IF i < Len(Block(s, b))
    THEN [block |-> b, pc |-> i + 1]
    ELSE IF b \in {"body", "except"} /\ Script(s).finally # << >>
         THEN [block |-> "finally", pc |-> 1]
         ELSE [block |-> "exit", pc |-> 1]

\* An exception that is swallowed at the statement: the script carries on.
AfterFailure_Continue(s, b, i) == AfterSuccess(s, b, i)

\* Where control goes after the statement at index i of block b raised:
\* into the except clause when the statement is inside the try, else into the
\* finally clause when there is one, else out of the script.
AfterFailure(s, b, i) ==
    IF b = "body" /\ Script(s).tryStart # 0 /\ i >= Script(s).tryStart
    THEN [block |-> "except", pc |-> 1]
    ELSE IF b = "except"
         THEN [block |-> "finally", pc |-> 1]
         ELSE [block |-> "exit", pc |-> 1]

\* Number of elements the call sees: a selector with :not([disabled]) matches
\* nothing while the element is disabled.
Matches(st, n, en) == IF st.enabledOnly /\ ~en THEN 0 ELSE n

\* Outcome of a call that waits for an element (page.wait_for_selector,
\* locator.wait_for, expect(locator).to_be_visible).
WaitOutcome(st, n, en) ==
    IF st.strict /\ Matches(st, n, en) > 1 THEN "AmbiguousMatch"
    ELSE IF Matches(st, n, en) = 0 THEN "Timeout"
    ELSE "ok"

\* Outcome of a call that acts on an element (click, fill, set_input_files):
\* a Locator refuses several matches, page.click / page.fill take the first;
\* the call then waits for the element to be enabled.
ActOutcome(st, n, en) ==
    IF st.strict /\ Matches(st, n, en) > 1 THEN "AmbiguousMatch"
    ELSE IF Matches(st, n, en) = 0 THEN "Timeout"
    ELSE IF ~en THEN "Timeout"
    ELSE "ok"

\* Outcome of locator.get_attribute: the element must exist and be unique;
\* a missing attribute is not an error, the call returns None.
AttrOutcome(st, n) ==
    IF st.strict /\ n > 1 THEN "AmbiguousMatch"
    ELSE IF n = 0 THEN "Timeout"
    ELSE "ok"

\* The argument page.goto receives.
GotoArg(st) == IF st.arg = "$share_url" THEN shareUrl ELSE st.arg

NoFailure == [block |-> "none", idx |-> 0, line |-> 0, op |-> "none", target |-> "", reason |-> "none"]

Cur == Block(script, block)[pc]

At(op) == block # "exit" /\ pc <= Len(Block(script, block)) /\ Cur.op = op

\* The bookkeeping every statement shares: log the call, move control, and
\* keep or raise the exception in flight.
Finish(res, n, acted, argv) ==
    LET nxt == IF res = "ok" THEN AfterSuccess(script, block, pc)
                             ELSE AfterFailure(script, block, pc)
        pend == IF res = "ok" THEN pending
                ELSE IF nxt.block = "except" THEN "none" ELSE res
    IN /\ trace' = Append(trace, [block |-> block, idx |-> pc, line |-> Cur.line,
                                  op |-> Cur.op, target |-> Cur.target,
                                  strict |-> Cur.strict, n |-> n, result |-> res,
                                  acted |-> acted, arg |-> argv])
       /\ block' = nxt.block
       /\ pc' = nxt.pc
       /\ pending' = pend
       /\ escaped' = (nxt.block = "exit" /\ pend # "none")
       /\ failure' = IF res # "ok" /\ failure = NoFailure
                     THEN [block |-> block, idx |-> pc, line |-> Cur.line,
                           op |-> Cur.op, target |-> Cur.target, reason |-> res]
                     ELSE failure
       /\ UNCHANGED <<script, createEnabled>>

Init ==
    /\ script \in ScriptNames
    /\ createEnabled \in BOOLEAN
    /\ block = "body"
    /\ pc = 1
    /\ trace = << >>
    /\ pending = "none"
    /\ failure = NoFailure
    /\ escaped = FALSE
    /\ sessionOpen = FALSE
    /\ closeCalls = 0
    /\ listening = FALSE
    /\ navStarted = FALSE
    /\ raised = << >>
    /\ printed = << >>
    /\ captures = << >>
    /\ shareUrl = "unset"

\* playwright.chromium.launch().  Acquiring the browser, the context and the
\* page is taken to succeed: a run starts from a launched session.
Launch ==
    /\ At("launch")
    /\ Finish("ok", 0, FALSE, "")
    /\ sessionOpen' = TRUE
    /\ UNCHANGED <<closeCalls, listening, navStarted, raised, printed, captures, shareUrl>>

\* browser.new_context()
NewContext ==
    /\ At("new_context")
    /\ Finish("ok", 0, FALSE, "")
    /\ UNCHANGED <<sessionOpen, closeCalls, listening, navStarted, raised, printed, captures, shareUrl>>

\* browser.new_page() / context.new_page()
NewPage ==
    /\ At("new_page")
    /\ Finish("ok", 0, FALSE, "")
    /\ UNCHANGED <<sessionOpen, closeCalls, listening, navStarted, raised, printed, captures, shareUrl>>

\* page.on("pageerror", handler)
OnPageError ==
    /\ At("on_pageerror")
    /\ Finish("ok", 0, FALSE, "")
    /\ listening' = TRUE
    /\ UNCHANGED <<sessionOpen, closeCalls, navStarted, raised, printed, captures, shareUrl>>

\* page.goto(url): raises on a url that is not a string, or when the page does
\* not load in time.
Goto ==
    /\ At("goto")
    /\ \E loaded \in BOOLEAN :
         LET res == IF GotoArg(Cur) = "None" THEN "Error"
                    ELSE IF loaded THEN "ok" ELSE "Timeout"
         IN /\ Finish(res, 0, FALSE, GotoArg(Cur))
            /\ navStarted' = (navStarted \/ res = "ok")
    /\ UNCHANGED <<sessionOpen, closeCalls, listening, raised, printed, captures, shareUrl>>

\* page.wait_for_load_state(state)
WaitForLoadState ==
    /\ At("wait_for_load_state")
    /\ \E reached \in BOOLEAN :
         Finish(IF reached THEN "ok" ELSE "Timeout", 0, FALSE, Cur.arg)
    /\ UNCHANGED <<sessionOpen, closeCalls, listening, navStarted, raised, printed, captures, shareUrl>>

\* page.wait_for_url(pattern)
WaitForUrl ==
    /\ At("wait_for_url")
    /\ \E reached \in BOOLEAN :
         Finish(IF reached THEN "ok" ELSE "Timeout", 0, FALSE, Cur.arg)
    /\ UNCHANGED <<sessionOpen, closeCalls, listening, navStarted, raised, printed, captures, shareUrl>>

\* time.sleep(s) / page.wait_for_timeout(ms): a fixed delay
Sleep ==
    /\ At("sleep")
    /\ Finish("ok", 0, FALSE, "")
    /\ UNCHANGED <<sessionOpen, closeCalls, listening, navStarted, raised, printed, captures, shareUrl>>

\* Whether the element a statement addresses is enabled: the Create button
\* follows createEnabled for the whole run, any other element is free.
Enabled(st, e) == IF st.target = "create" THEN createEnabled ELSE e

\* page.wait_for_selector / locator.wait_for / expect(locator).to_be_visible
WaitFor ==
    /\ At("wait")
    /\ \E n \in 0..MaxMatches, e \in BOOLEAN :
         Finish(WaitOutcome(Cur, n, Enabled(Cur, e)), Matches(Cur, n, Enabled(Cur, e)), FALSE, "")
    /\ UNCHANGED <<sessionOpen, closeCalls, listening, navStarted, raised, printed, captures, shareUrl>>

\* expect(locator).not_to_be_visible()
ExpectHidden ==
    /\ At("expect_hidden")
    /\ \E n \in 0..MaxMatches, hidden \in BOOLEAN :
         LET res == IF Cur.strict /\ n > 1 THEN "AmbiguousMatch"
                    ELSE IF n = 0 \/ hidden THEN "ok" ELSE "AssertionFailed"
         IN Finish(res, n, FALSE, "")
    /\ UNCHANGED <<sessionOpen, closeCalls, listening, navStarted, raised, printed, captures, shareUrl>>

\* page.fill(selector, value) / locator.fill(value)
Fill ==
    /\ At("fill")
    /\ \E n \in 0..MaxMatches, e \in BOOLEAN :
         LET res == ActOutcome(Cur, n, Enabled(Cur, e))
         IN Finish(res, Matches(Cur, n, Enabled(Cur, e)), res = "ok", Cur.arg)
    /\ UNCHANGED <<sessionOpen, closeCalls, listening, navStarted, raised, printed, captures, shareUrl>>

\* page.click(selector) / locator.click()
Click ==
    /\ At("click")
    /\ \E n \in 0..MaxMatches, e \in BOOLEAN :
         LET res == ActOutcome(Cur, n, Enabled(Cur, e))
         IN Finish(res, Matches(Cur, n, Enabled(Cur, e)), res = "ok", "")
    /\ UNCHANGED <<sessionOpen, closeCalls, listening, navStarted, raised, printed, captures, shareUrl>>

\* locator.set_input_files(path)
SetInputFiles ==
    /\ At("set_input_files")
    /\ \E n \in 0..MaxMatches, e \in BOOLEAN :
         LET res == ActOutcome(Cur, n, Enabled(Cur, e))
         IN Finish(res, Matches(Cur, n, Enabled(Cur, e)), res = "ok", Cur.arg)
    /\ UNCHANGED <<sessionOpen, closeCalls, listening, navStarted, raised, printed, captures, shareUrl>>

\* share_url = share_button.get_attribute("data-share-url")
GetAttribute ==
    /\ At("get_attribute")
    /\ \E n \in 0..MaxMatches, present \in BOOLEAN :
         LET res == AttrOutcome(Cur, n)
         IN /\ Finish(res, n, res = "ok", Cur.arg)
            /\ shareUrl' = IF res # "ok" THEN shareUrl
                           ELSE IF present THEN "/share/abc" ELSE "None"
    /\ UNCHANGED <<sessionOpen, closeCalls, listening, navStarted, raised, printed, captures>>

\* page.screenshot(path=...): raises when the image cannot be taken or written
Screenshot ==
    /\ At("screenshot")
    /\ \E written \in BOOLEAN :
         /\ Finish(IF written THEN "ok" ELSE "Error", 0, FALSE, Cur.arg)
         /\ captures' = IF written THEN Append(captures, Cur.arg) ELSE captures
    /\ UNCHANGED <<sessionOpen, closeCalls, listening, navStarted, raised, printed, shareUrl>>

\* print(e) in an except clause
PrintException ==
    /\ At("print")
    /\ Finish("ok", 0, FALSE, "")
    /\ UNCHANGED <<sessionOpen, closeCalls, listening, navStarted, raised, printed, captures, shareUrl>>

\* browser.close()
Close ==
    /\ At("close")
    /\ Finish("ok", 0, FALSE, "")
    /\ sessionOpen' = FALSE
    /\ closeCalls' = closeCalls + 1
    /\ UNCHANGED <<listening, navStarted, raised, printed, captures, shareUrl>>

\* The page under test raises an uncaught error; a registered handler prints it.
PageError ==
    /\ block # "exit"
    /\ sessionOpen
    /\ navStarted
    /\ Len(raised) < MaxErrors
    /\ raised' = Append(raised, Len(raised) + 1)
    /\ printed' = IF listening THEN Append(printed, Len(raised) + 1) ELSE printed
    /\ UNCHANGED <<script, createEnabled, block, pc, trace, pending, failure, escaped,
                   sessionOpen, closeCalls, listening, navStarted, captures, shareUrl>>

Next ==
    \/ Launch
    \/ NewContext
    \/ NewPage
    \/ OnPageError
    \/ Goto
    \/ WaitForLoadState
    \/ WaitForUrl
    \/ Sleep
    \/ WaitFor
    \/ ExpectHidden
    \/ Fill
    \/ Click
    \/ SetInputFiles
    \/ GetAttribute
    \/ Screenshot
    \/ PrintException
    \/ Close
    \/ PageError

Spec == Init /\ [][Next]_vars

(***************************************************************************)
(* Properties                                                              *)
(***************************************************************************)

Done == block = "exit"
Pos == 1..Len(trace)
Failed == failure # NoFailure
\* Position in the trace of the first call that raised (0 when none did).
FailPos == IF \E i \in Pos : trace[i].result # "ok"
           THEN CHOOSE i \in Pos : /\ trace[i].result # "ok"
                                   /\ \A j \in 1..(i - 1) : trace[j].result = "ok"
           ELSE 0
ActionOps == {"click", "fill", "set_input_files", "get_attribute"}
JourneyScripts == {"verify_export_modal", "verify_share_button_present",
                   "verify_share_feature", "verify_share_flow"}

\* C1 (as claimed): on every exit path of every script the launched browser
\* is closed exactly once: a finished run has called browser.close() once,
\* and no run calls it twice.
C1_ClosedExactlyOnce ==
    /\ closeCalls <= 1
    /\ (Done /\ (\E i \in Pos : trace[i].op = "launch")) => closeCalls = 1

\* C2 (as claimed): a run that stopped because a call raised has taken a
\* screenshot after that call, before the browser was closed and the run ended.
C2_FailureScreenshot ==
    (Done /\ Failed) =>
        \E i \in Pos : /\ i > FailPos
                       /\ trace[i].op = "screenshot"
                       /\ trace[i].result = "ok"
                       /\ \A j \in 1..i : trace[j].op # "close"

C4_NoActionOnAmbiguousTarget ==
    \A i \in Pos :
        (trace[i].op \in ActionOps /\ trace[i].n > 1) =>
            /\ trace[i].result # "ok"
            /\ ~trace[i].acted

\* C5 (as claimed): no failure of a call leaves the run as an uncaught
\* exception.
C5_NoUncaughtFailure == ~escaped

\* C6: in get_page_errors the pageerror handler is registered before the
\* first navigation and stays registered while the browser is open, so the
\* errors printed are exactly the errors the page raised, in order.
C6_ListenerCoversSession ==
    script = "get_page_errors" =>
        /\ navStarted => listening
        /\ printed = raised

C6_Witness ==
    /\ script = "get_page_errors"
    /\ Done
    /\ closeCalls = 1
    /\ Len(raised) = MaxErrors
    /\ printed = raised

\* C7: within one run no two screenshots, taken or attempted, on the success
\* path or in the except clause, go to the same path.
C7_DistinctCapturePaths ==
    /\ \A i, j \in Pos :
          (i # j /\ trace[i].op = "screenshot" /\ trace[j].op = "screenshot")
              => trace[i].arg # trace[j].arg
    /\ \A i, j \in 1..Len(captures) : i # j => captures[i] # captures[j]

C7_Witness ==
    /\ script = "verify_typing_animation"
    /\ Done
    /\ Len(captures) = 4

\* C8 (as claimed): a screenshot that fails does not stop the script: once the
\* run is over, the statement following the failed screenshot has been run.
C8_FailedCaptureDoesNotAbort ==
    Done =>
        \A i \in Pos :
            (/\ trace[i].op = "screenshot"
             /\ trace[i].block = "body"
             /\ trace[i].result # "ok"
             /\ trace[i].idx < Len(Script(script).body))
            => \E j \in Pos : /\ j > i
                              /\ trace[j].block = "body"
                              /\ trace[j].idx = trace[i].idx + 1

\* The run got as far as the statement that addresses the Create button.
ReachedCreate == \E i \in Pos : trace[i].target = "create"
FirstCreate == CHOOSE i \in Pos : /\ trace[i].target = "create"
                                  /\ \A j \in 1..(i - 1) : trace[j].target # "create"

C10_GotoNeverNone ==
    script = "verify_share_flow" =>
        \A i \in Pos : trace[i].op = "goto" => trace[i].arg # "None"

====
